---- MODULE Spec2Model ----
(***************************************************************************)
(* Routing and tour-optimisation engine of routing_lib:                    *)
(*   graph/core.py               Graph.add_node / add_edge / get_edge_cost *)
(*   algorithms/dijkstra.py      dijkstra, reconstruct_path                *)
(*   algorithms/distance_matrix.py  distance_matrix                        *)
(*   algorithms/tsp_nn.py        tsp_nn                                    *)
(*   algorithms/tsp_2opt.py      tsp_2opt                                  *)
(*   algorithms/tsp_held_karp.py tsp_held_karp                             *)
(*                                                                         *)
(* Node identifiers are the integers 1..NumIds (their order stands for the *)
(* string order heapq uses to break ties).  Costs are Python floats; the   *)
(* model draws them from small naturals, on which float addition and       *)
(* subtraction are exact, and keeps the IEEE special values inf, -inf and  *)
(* nan as the sentinels Inf, NegInf and NaN.                               *)
(***************************************************************************)
EXTENDS Integers, Sequences, FiniteSets, TLC

\* ------------------------------------------------------------------ bounds
NumIds == 3          \* node identifiers 1..NumIds
MaxCost == 2         \* edge costs 0..MaxCost
MaxEdges == 3        \* node pairs joined by an edge
MaxStops == 2        \* length of the stops list given to distance_matrix
TourStops == 4       \* stops of the matrix given to tsp_2opt
NNStops == 3         \* stops, and matrix rows, given to tsp_nn
MaxHeavy == 4        \* non-zero entries of an asymmetric matrix given to tsp_2opt
OtherLength == 7     \* a tour_length that need not match the tour
HKStops == 4         \* rows of the matrix given to tsp_held_karp

NodeIds == 1..NumIds
Costs == 0..MaxCost

\* ------------------------------------------------------------ float values
Inf == 1000000       \* float("inf")
NegInf == 0 - Inf
NaN == Inf + Inf
None == 0            \* Python None (no node identifier is 0)

IsFinite(x) == x # Inf /\ x # NegInf /\ x # NaN

\* x + y on floats
FAdd(x, y) ==
    IF x = NaN \/ y = NaN THEN NaN
    ELSE IF (x = Inf /\ y = NegInf) \/ (x = NegInf /\ y = Inf) THEN NaN
    ELSE IF x = Inf \/ y = Inf THEN Inf
    ELSE IF x = NegInf \/ y = NegInf THEN NegInf
    ELSE x + y

\* x - y on floats
FSub(x, y) ==
    IF y = NaN THEN NaN
    ELSE IF y = Inf THEN FAdd(x, NegInf)
    ELSE IF y = NegInf THEN FAdd(x, Inf)
    ELSE FAdd(x, 0 - y)

\* x < y on floats (false when either is nan)
FLt(x, y) == x # NaN /\ y # NaN /\ x < y

\* x > y on floats
FGt(x, y) == FLt(y, x)

\* --------------------------------------------------------------- variables
VARIABLES
    nodes,      \* Graph.nodes: the node identifiers of the graph
    nbr,        \* Node.neighbours of every identifier: neighbour -> cost
    directed,   \* Graph.directed
    pc,         \* which call is running, and where
    source,     \* dijkstra: source
    target,     \* dijkstra: target (None when not given)
    distances,  \* dijkstra: distances
    prev,       \* dijkstra: prev
    pq,         \* dijkstra: the heap, a set of <<distance, node>>
    expanded,   \* dijkstra: how often each node's out-edges were relaxed
    stops,      \* distance_matrix: stops
    matrix,     \* distance_matrix: matrix, matrix[i][j] with i, j from 0
    node_to_index,  \* distance_matrix: node_to_index
    index_to_node,  \* distance_matrix: index_to_node
    paths,      \* distance_matrix: paths, keyed by <<source, target>>
    tour_ids,   \* tsp_2opt: tour_ids
    tour_length,    \* tsp_2opt: tour_length
    best,       \* tsp_2opt: best
    best_length,    \* tsp_2opt: best_length
    seen,       \* tsp_2opt: the values best had before its present one
    aliases,    \* tsp_2opt: the arguments whose list object best is
    start,      \* tsp_nn: start
    return_to_start,    \* tsp_nn: return_to_start
    visited,    \* tsp_nn: the indexes i with visited[i] true
    tour_idx,   \* tsp_nn: tour_idx
    total_length,   \* tsp_nn: total_length
    current,    \* tsp_nn: current
    error,      \* tsp_nn: the arguments of the ValueError raised, <<>> if none
    DP,         \* tsp_held_karp: DP, keyed by <<mask, j>>
    parent,     \* tsp_held_karp: parent, keyed by <<mask, j>>
    optimal_length, \* tsp_held_karp: optimal_length
    hk_tour_ids,    \* tsp_held_karp: tour_ids
    path,       \* reconstruct_path: path
    path_current,   \* reconstruct_path: current
    components, \* connected_components: components, as returned
    component,  \* extract_component: component
    final_nodes,    \* extract_component: final_graph.nodes
    final_nbr   \* extract_component: Node.neighbours in final_graph

vars == <<nodes, nbr, directed, pc, source, target, distances, prev, pq, expanded,
          stops, matrix, node_to_index, index_to_node, paths,
          tour_ids, tour_length, best, best_length, seen, aliases,
          start, return_to_start, visited, tour_idx, total_length, current,
          error, DP, parent, optimal_length, hk_tour_ids, path, path_current,
          components, component, final_nodes, final_nbr>>

graphVars == <<nodes, nbr, directed>>
dijkstraVars == <<source, target, distances, prev, pq, expanded>>
matrixVars == <<stops, matrix, node_to_index, index_to_node, paths>>
twoOptVars == <<tour_ids, tour_length, best, best_length, seen, aliases>>
nnVars == <<start, return_to_start, visited, tour_idx, total_length, current>>
hkVars == <<DP, parent, optimal_length, hk_tour_ids>>
pathVars == <<path, path_current>>
componentVars == <<components, component, final_nodes, final_nbr>>

\* -------------------------------------------------------------- graph/core
Empty == [x \in {} |-> 0]

\* Node.add_neighbour on the neighbours of one node
add_neighbour(nb, neighbour_id, cost) ==
    [v \in (DOMAIN nb) \cup {neighbour_id} |->
        IF v = neighbour_id THEN cost ELSE nb[v]]

\* Graph.get_edge_cost
get_edge_cost(ns, nb, from_id, to_id) ==
    IF from_id \in ns /\ to_id \in DOMAIN nb[from_id]
    THEN nb[from_id][to_id]
    ELSE Inf

\* the pairs of nodes joined by an edge in either direction, and the nodes
\* with an edge to themselves
EdgePairs(nb) ==
    {e \in SUBSET NodeIds :
        /\ Cardinality(e) \in {1, 2}
        /\ \E u \in e, v \in e :
              /\ u # v \/ Cardinality(e) = 1
              /\ v \in DOMAIN nb[u]}

\* Graph.add_node
add_node(node_id) ==
    /\ pc = "build"
    /\ nodes' = nodes \cup {node_id}
    /\ UNCHANGED <<nbr, directed, pc>>
    /\ UNCHANGED dijkstraVars
    /\ UNCHANGED matrixVars
    /\ UNCHANGED twoOptVars
    /\ UNCHANGED nnVars
    /\ UNCHANGED <<hkVars, pathVars, error, componentVars>>

\* the neighbour maps after Graph.add_edge, the reverse direction forgotten
EdgeAddedOneWay(nb, dir, from_id, to_id, cost) ==
    [nb EXCEPT ![from_id] = add_neighbour(@, to_id, cost)]

\* the neighbour maps after Graph.add_edge, had it left the cost of an
\* edge already stored at to_id as it was
EdgeAddedKeepingReverse(nb, dir, from_id, to_id, cost) ==
    LET nb1 == [nb EXCEPT ![from_id] = add_neighbour(@, to_id, cost)]
    IN  IF dir \/ from_id \in DOMAIN nb[to_id] THEN nb1
        ELSE [nb1 EXCEPT ![to_id] = add_neighbour(@, from_id, cost)]

\* the neighbour maps after Graph.add_edge
EdgeAdded(nb, dir, from_id, to_id, cost) ==
    LET nb1 == [nb EXCEPT ![from_id] = add_neighbour(@, to_id, cost)]
    IN  IF dir THEN nb1
        ELSE [nb1 EXCEPT ![to_id] = add_neighbour(@, from_id, cost)]

\* Graph.add_edge
add_edge(from_id, to_id, cost) ==
    /\ pc = "build"
    /\ nodes' = nodes \cup {from_id, to_id}
    /\ nbr' = EdgeAdded(nbr, directed, from_id, to_id, cost)
    /\ Cardinality(EdgePairs(nbr')) <= MaxEdges
    /\ UNCHANGED <<directed, pc>>
    /\ UNCHANGED dijkstraVars
    /\ UNCHANGED matrixVars
    /\ UNCHANGED twoOptVars
    /\ UNCHANGED nnVars
    /\ UNCHANGED <<hkVars, pathVars, error, componentVars>>

\* ------------------------------------------------------------ graph/utils
\* the orders in which graph.nodes, a dict, can hold the nodes ns: the order
\* in which add_node and add_edge first named them
InsertionOrders(ns) ==
    {f \in [1..Cardinality(ns) -> ns] : \A k, m \in DOMAIN f : f[k] = f[m] => k = m}

\* the members of a set of identifiers as a list
RECURSIVE ListOf(_)
ListOf(S) ==
    IF S = {} THEN <<>>
    ELSE LET x == CHOOSE y \in S : \A z \in S : y <= z
         IN  <<x>> \o ListOf(S \ {x})

\* connected_components: the while loop over the queue q.  The order in
\* which the neighbours of a node are met changes neither seen nor component.
RECURSIVE BreadthFirst(_, _, _, _)
BreadthFirst(nb, q, seen_nodes, comp) ==
    IF q = <<>> THEN [seen |-> seen_nodes, component |-> comp]
    ELSE LET node == Head(q)
             new == DOMAIN nb[node] \ seen_nodes
         IN  BreadthFirst(nb, Tail(q) \o ListOf(new), seen_nodes \cup new, comp \cup new)

\* connected_components: the for loop over graph.nodes from position k on
RECURSIVE ComponentsFrom(_, _, _, _, _)
ComponentsFrom(nb, order, k, seen_nodes, comps) ==
    IF k > Len(order) THEN comps
    ELSE IF order[k] \in seen_nodes
         THEN ComponentsFrom(nb, order, k + 1, seen_nodes, comps)
         ELSE LET found == BreadthFirst(nb, <<order[k]>>, seen_nodes \cup {order[k]},
                                        {order[k]})
              IN  ComponentsFrom(nb, order, k + 1, found.seen,
                                 Append(comps, found.component))

\* connected_components(graph), graph.nodes holding the nodes in this order
ConnectedComponents(nb, order) == ComponentsFrom(nb, order, 1, {}, <<>>)

\* extract_component: final_graph.add_edge(node_id, neighbour_id, cost) for
\* the edges given.  No two of these calls write different costs to one
\* entry, so the order of the calls does not show in the result.
RECURSIVE EdgesExtracted(_, _, _, _, _)
EdgesExtracted(ns, nb, dir, final, edges) ==
    IF edges = {} THEN final
    ELSE LET e == CHOOSE x \in edges : TRUE
             cost == get_edge_cost(ns, nb, e[1], e[2])
         IN  EdgesExtracted(ns, nb, dir,
                            [nodes |-> final.nodes \cup {e[1], e[2]},
                             nbr |-> EdgeAdded(final.nbr, dir, e[1], e[2], cost)],
                            edges \ {e})

\* extract_component(graph, component): the nodes of the component added,
\* then the edges that leave them
ExtractComponent(ns, nb, dir, comp) ==
    EdgesExtracted(ns, nb, dir,
                   [nodes |-> comp, nbr |-> [n \in NodeIds |-> Empty]],
                   {e \in comp \X NodeIds : e[2] \in DOMAIN nb[e[1]]})

\* connected_components(graph)
connected_components ==
    /\ pc = "build"
    /\ pc' = "components"
    /\ \E order \in InsertionOrders(nodes) :
          components' = ConnectedComponents(nbr, order)
    /\ UNCHANGED <<component, final_nodes, final_nbr>>
    /\ UNCHANGED <<graphVars, dijkstraVars, matrixVars, twoOptVars, nnVars>>
    /\ UNCHANGED <<hkVars, pathVars, error>>

\* extract_component(graph, component)
extract_component(comp) ==
    /\ pc = "components"
    /\ pc' = "extracted"
    /\ component' = comp
    /\ LET final_graph == ExtractComponent(nodes, nbr, directed, comp)
       IN  /\ final_nodes' = final_graph.nodes
           /\ final_nbr' = final_graph.nbr
    /\ UNCHANGED components
    /\ UNCHANGED <<graphVars, dijkstraVars, matrixVars, twoOptVars, nnVars>>
    /\ UNCHANGED <<hkVars, pathVars, error>>

\* ---------------------------------------------------- algorithms/dijkstra
\* the greatest entry of the heap
HeapMax(h) ==
    CHOOSE e \in h : \A f \in h :
        \/ e[1] > f[1]
        \/ (e[1] = f[1] /\ e[2] >= f[2])

\* heapq.heappop: the least entry, tuples compare by distance, then by node
HeapMin(h) ==
    CHOOSE e \in h : \A f \in h :
        \/ e[1] < f[1]
        \/ (e[1] = f[1] /\ e[2] <= f[2])

\* the state of a dijkstra call before its loop
DijkstraInit(ns, s, t) ==
    [distances |-> [n \in ns \cup {s} |-> IF n = s THEN 0 ELSE Inf],
     prev      |-> [n \in ns |-> None],
     pq        |-> {<<0, s>>},
     expanded  |-> [n \in NodeIds |-> 0],
     pc        |-> "loop"]

\* new_cost = current_distance + cost, with the edge cost left out
NewCostEdgeOnly(ns, nb, d, u, v) == get_edge_cost(ns, nb, u, v)

\* new_cost = current_distance + cost
NewCost(ns, nb, d, u, v) == FAdd(d, get_edge_cost(ns, nb, u, v))

\* the for loop over the neighbours of u, left after its first improvement
ImprovedFirstOnly(ns, nb, st, d, u) ==
    LET all == {v \in DOMAIN nb[u] : FLt(NewCost(ns, nb, d, u, v), st.distances[v])}
    IN  {v \in all : \A w \in all : v <= w}

\* the for loop over the neighbours of u: every improved neighbour
Improved(ns, nb, st, d, u) ==
    {v \in DOMAIN nb[u] : FLt(NewCost(ns, nb, d, u, v), st.distances[v])}

\* one pass of the while loop without the test that skips an outdated entry
DijkstraIterStaleKept(ns, nb, st, t) ==
    IF st.pq = {} THEN [st EXCEPT !.pc = "done"]
    ELSE
        LET e == HeapMin(st.pq)
            d == e[1]
            u == e[2]
            rest == st.pq \ {e}
        IN  IF t # None /\ u = t THEN [st EXCEPT !.pq = rest, !.pc = "done"]
            ELSE IF u \notin ns THEN [st EXCEPT !.pq = rest, !.pc = "KeyError"]
            ELSE
                LET imp == Improved(ns, nb, st, d, u)
                    nc(v) == NewCost(ns, nb, d, u, v)
                IN  [st EXCEPT
                        !.distances = [n \in DOMAIN st.distances |->
                                          IF n \in imp THEN nc(n) ELSE st.distances[n]],
                        !.prev = [n \in DOMAIN st.prev |->
                                          IF n \in imp THEN u ELSE st.prev[n]],
                        !.pq = rest \cup {<<nc(v), v>> : v \in imp},
                        !.expanded = [st.expanded EXCEPT ![u] = @ + 1],
                        !.pc = "loop"]

\* one pass of the while loop (or the return, when the heap is empty)
DijkstraIter(ns, nb, st, t) ==
    IF st.pq = {} THEN [st EXCEPT !.pc = "done"]
    ELSE
        LET e == HeapMin(st.pq)
            d == e[1]
            u == e[2]
            rest == st.pq \ {e}
        IN  IF FGt(d, st.distances[u]) THEN [st EXCEPT !.pq = rest]
            ELSE IF t # None /\ u = t THEN [st EXCEPT !.pq = rest, !.pc = "done"]
            ELSE IF u \notin ns THEN [st EXCEPT !.pq = rest, !.pc = "KeyError"]
            ELSE
                LET imp == Improved(ns, nb, st, d, u)
                    nc(v) == NewCost(ns, nb, d, u, v)
                IN  [st EXCEPT
                        !.distances = [n \in DOMAIN st.distances |->
                                          IF n \in imp THEN nc(n) ELSE st.distances[n]],
                        !.prev = [n \in DOMAIN st.prev |->
                                          IF n \in imp THEN u ELSE st.prev[n]],
                        !.pq = rest \cup {<<nc(v), v>> : v \in imp},
                        !.expanded = [st.expanded EXCEPT ![u] = @ + 1],
                        !.pc = "loop"]

\* dijkstra(graph, s, t) run to its return (or its KeyError)
RECURSIVE DijkstraLoop(_, _, _, _)
DijkstraLoop(ns, nb, st, t) ==
    IF st.pc # "loop" THEN st
    ELSE DijkstraLoop(ns, nb, DijkstraIter(ns, nb, st, t), t)

dijkstra(ns, nb, s, t) == DijkstraLoop(ns, nb, DijkstraInit(ns, s, t), t)

\* the elements of a list
Range(seq) == {seq[k] : k \in 1..Len(seq)}

\* the list left as it is, not reversed
ReverseLeftOut(seq) == seq

\* reversed(seq)
Reverse(seq) == [i \in 1..Len(seq) |-> seq[Len(seq) + 1 - i]]

\* reconstruct_path: the while loop, from current back towards source
RECURSIVE Walk(_, _, _)
Walk(pv, s, cur) ==
    IF cur = None THEN <<>>
    ELSE IF cur = s THEN <<cur>>
    ELSE <<cur>> \o Walk(pv, s, pv[cur])

\* reconstruct_path without path.reverse()
reconstruct_path_unreversed(pv, s, t) ==
    IF t = s THEN <<s>>
    ELSE IF t \notin DOMAIN pv \/ pv[t] = None THEN <<>>
    ELSE Walk(pv, s, t)

\* reconstruct_path(prev, source, target)
reconstruct_path(pv, s, t) ==
    IF t = s THEN <<s>>
    ELSE IF t \notin DOMAIN pv \/ pv[t] = None THEN <<>>
    ELSE Reverse(Walk(pv, s, t))

\* reconstruct_path(prev, source, target): the call, up to the while loop
ReconstructCall(s, t) ==
    /\ pc = "path"
    /\ source' = s
    /\ target' = t
    /\ IF t = s
       THEN pc' = "path_done" /\ path' = <<s>> /\ UNCHANGED path_current
       ELSE IF t \notin DOMAIN prev \/ prev[t] = None
       THEN pc' = "path_done" /\ path' = <<>> /\ UNCHANGED path_current
       ELSE pc' = "walk" /\ path' = <<>> /\ path_current' = t
    /\ UNCHANGED <<distances, prev, pq, expanded>>
    /\ UNCHANGED <<graphVars, matrixVars, twoOptVars, nnVars, hkVars, error, componentVars>>

\* reconstruct_path: one pass of the while loop, and path.reverse() and the
\* return when the loop is left.  A pass reads current and prev only, so
\* once current is a node already in path the passes from there repeat
\* without end; the model follows the walk up to that point.
WalkStep ==
    /\ pc = "walk"
    /\ path_current \notin Range(path)
    /\ IF path_current = None
       THEN pc' = "path_done" /\ path' = Reverse(path) /\ UNCHANGED path_current
       ELSE IF path_current = source
       THEN /\ pc' = "path_done"
            /\ path' = Reverse(Append(path, path_current))
            /\ UNCHANGED path_current
       ELSE IF path_current \notin DOMAIN prev
       THEN /\ pc' = "path_KeyError"
            /\ path' = Append(path, path_current)
            /\ UNCHANGED path_current
       ELSE /\ pc' = "walk"
            /\ path' = Append(path, path_current)
            /\ path_current' = prev[path_current]
    /\ UNCHANGED dijkstraVars
    /\ UNCHANGED <<graphVars, matrixVars, twoOptVars, nnVars, hkVars, error, componentVars>>

\* the state of the running call as one record
Dj == [distances |-> distances, prev |-> prev, pq |-> pq,
       expanded |-> expanded, pc |-> IF pc = "dijkstra" THEN "loop" ELSE pc]

\* dijkstra(graph, source, target): the call
DijkstraCall(s, t) ==
    /\ pc = "build"
    /\ LET st == DijkstraInit(nodes, s, t)
       IN  /\ distances' = st.distances
           /\ prev' = st.prev
           /\ pq' = st.pq
           /\ expanded' = st.expanded
    /\ source' = s
    /\ target' = t
    /\ pc' = "dijkstra"
    /\ UNCHANGED graphVars
    /\ UNCHANGED matrixVars
    /\ UNCHANGED twoOptVars
    /\ UNCHANGED nnVars
    /\ UNCHANGED <<hkVars, pathVars, error, componentVars>>

\* dijkstra: one pass of the while loop
DijkstraStep ==
    /\ pc = "dijkstra"
    /\ LET st == DijkstraIter(nodes, nbr, Dj, target)
       IN  /\ distances' = st.distances
           /\ prev' = st.prev
           /\ pq' = st.pq
           /\ expanded' = st.expanded
           /\ pc' = IF st.pc = "loop" THEN "dijkstra"
                    ELSE IF st.pc = "done" THEN "dijkstra_done"
                    ELSE "dijkstra_KeyError"
    /\ UNCHANGED graphVars
    /\ UNCHANGED <<source, target>>
    /\ UNCHANGED matrixVars
    /\ UNCHANGED twoOptVars
    /\ UNCHANGED nnVars
    /\ UNCHANGED <<hkVars, pathVars, error, componentVars>>

\* --------------------------------------------- algorithms/distance_matrix
\* {node: i for i, node in enumerate(stops)}: a repeated node keeps its last index
NodeToIndex(sts) ==
    [node \in Range(sts) |->
        (CHOOSE k \in 1..Len(sts) :
            sts[k] = node /\ \A m \in 1..Len(sts) : sts[m] = node => m <= k) - 1]

\* {i: node for i, node in enumerate(stops)}
IndexToNode(sts) == [i \in 0..(Len(sts) - 1) |-> sts[i + 1]]

\* d, prev = dijkstra(graph, stops[0]), the run from the first stop taken
\* for every source
RunsFromFirstStop(ns, nb, sts) == [src \in Range(sts) |-> dijkstra(ns, nb, sts[1], None)]

\* d, prev = dijkstra(graph, source), for every source in stops
Runs(ns, nb, sts) == [src \in Range(sts) |-> dijkstra(ns, nb, src, None)]

\* matrix[i][j] as the loops leave it, had they written d[target] to [j][i]
MatrixEntryTransposed(runs, sts, i, j) ==
    LET n2i == NodeToIndex(sts)
        written == {n2i[node] : node \in Range(sts)}
    IN  IF i \in written /\ j \in written
        THEN IF sts[j + 1] = sts[i + 1] THEN 0
             ELSE runs[sts[j + 1]].distances[sts[i + 1]]
        ELSE Inf

\* matrix[i][j] as the two loops over stops leave it: the cells of the
\* indexes node_to_index yields are written, the others keep np.inf
MatrixEntry(runs, sts, i, j) ==
    LET n2i == NodeToIndex(sts)
        written == {n2i[node] : node \in Range(sts)}
    IN  IF i \in written /\ j \in written
        THEN IF sts[i + 1] = sts[j + 1] THEN 0
             ELSE runs[sts[i + 1]].distances[sts[j + 1]]
        ELSE Inf

\* distance_matrix(graph, stops): what it returns, or the KeyError that
\* dijkstra (graph.get_node) or d[target] raises for a stop outside the graph
DistanceMatrix(ns, nb, sts) ==
    IF \E node \in Range(sts) : node \notin ns
    THEN [pc |-> "KeyError", matrix |-> <<>>, node_to_index |-> <<>>,
          index_to_node |-> <<>>, paths |-> <<>>]
    ELSE LET runs == Runs(ns, nb, sts)
         IN [pc |-> "done",
             matrix |-> [i \in 0..(Len(sts) - 1) |->
                          [j \in 0..(Len(sts) - 1) |-> MatrixEntry(runs, sts, i, j)]],
             node_to_index |-> NodeToIndex(sts),
             index_to_node |-> IndexToNode(sts),
             paths |-> [p \in {q \in Range(sts) \X Range(sts) : q[1] # q[2]} |->
                          reconstruct_path(runs[p[1]].prev, p[1], p[2])]]

\* distance_matrix(graph, stops)
distance_matrix(sts) ==
    /\ pc = "build"
    /\ LET r == DistanceMatrix(nodes, nbr, sts)
       IN  /\ pc' = IF r.pc = "done" THEN "matrix_done" ELSE "matrix_KeyError"
           /\ matrix' = r.matrix
           /\ node_to_index' = r.node_to_index
           /\ index_to_node' = r.index_to_node
           /\ paths' = r.paths
    /\ stops' = sts
    /\ UNCHANGED graphVars
    /\ UNCHANGED dijkstraVars
    /\ UNCHANGED twoOptVars
    /\ UNCHANGED nnVars
    /\ UNCHANGED <<hkVars, pathVars, error, componentVars>>

\* ---------------------------------------------------- algorithms/tsp_2opt
\* seq[p] with Python's positions, which start at 0
At(seq, p) == seq[p + 1]

\* distances[node_to_index[x], node_to_index[y]]
Dist(D, n2i, x, y) == D[n2i[x]][n2i[y]]

\* the positions (i, j) the two for loops visit
ScanPairs(n) == {q \in (1..(n - 3)) \X (2..(n - 2)) : q[1] < q[2]}

\* (i, j) is visited before (k, l)
Before(q, r) == q[1] < r[1] \/ (q[1] = r[1] /\ q[2] < r[2])

\* d = best[(j + 1) % n] if is_cycled else best[j + 1]
NodeD(bst, j) ==
    LET n == Len(bst)
        is_cycled == At(bst, 0) = At(bst, n - 1)
    IN  IF is_cycled THEN At(bst, (j + 1) % n) ELSE At(bst, j + 1)

old_cost(D, n2i, bst, i, j) ==
    FAdd(Dist(D, n2i, At(bst, i - 1), At(bst, i)),
         Dist(D, n2i, At(bst, j), NodeD(bst, j)))

new_cost(D, n2i, bst, i, j) ==
    FAdd(Dist(D, n2i, At(bst, i - 1), At(bst, j)),
         Dist(D, n2i, At(bst, i), NodeD(bst, j)))

\* the pair (i, j) is not skipped as adjacent and strictly improves
Improving(D, n2i, bst, i, j) ==
    /\ ~(At(bst, i - 1) = At(bst, j) \/ At(bst, i) = NodeD(bst, j))
    /\ FLt(new_cost(D, n2i, bst, i, j), old_cost(D, n2i, bst, i, j))

\* best[:j + 1][:: -1] + best[j + 1:]: the reversal taken from the first stop
ReversedFromStart(bst, i, j) ==
    [p \in 1..Len(bst) |->
        IF p - 1 \in 0..j THEN At(bst, j - (p - 1)) ELSE bst[p]]

\* best[:i] + best[i: j + 1][:: -1] + best[j + 1:]
Reversed(bst, i, j) ==
    [p \in 1..Len(bst) |->
        IF p - 1 \in i..j THEN At(bst, i + j - (p - 1)) ELSE bst[p]]

\* best_length += (old_cost - new_cost): the delta with its sign turned
LengthAfterSignTurned(D, n2i, bst, len, i, j) ==
    FAdd(len, FSub(old_cost(D, n2i, bst, i, j), new_cost(D, n2i, bst, i, j)))

\* best_length += (new_cost - old_cost)
LengthAfter(D, n2i, bst, len, i, j) ==
    FAdd(len, FSub(new_cost(D, n2i, bst, i, j), old_cost(D, n2i, bst, i, j)))

\* one pass of the while loop that scans every pair and swaps at the last
\* improving one
TwoOptPassLastPair(D, n2i, bst, len) ==
    LET improving == {q \in ScanPairs(Len(bst)) : Improving(D, n2i, bst, q[1], q[2])}
    IN  IF improving = {} THEN [improved |-> FALSE, best |-> bst, best_length |-> len]
        ELSE LET q == CHOOSE r \in improving : \A o \in improving : o = r \/ Before(o, r)
             IN  [improved |-> TRUE,
                  best |-> Reversed(bst, q[1], q[2]),
                  best_length |-> LengthAfter(D, n2i, bst, len, q[1], q[2])]

\* one pass of the while loop: the scan up to its first improving pair and
\* the swap there, or the return when no pair improves
TwoOptPass(D, n2i, bst, len) ==
    LET improving == {q \in ScanPairs(Len(bst)) : Improving(D, n2i, bst, q[1], q[2])}
    IN  IF improving = {} THEN [improved |-> FALSE, best |-> bst, best_length |-> len]
        ELSE LET q == CHOOSE r \in improving : \A o \in improving : o = r \/ Before(r, o)
             IN  [improved |-> TRUE,
                  best |-> Reversed(bst, q[1], q[2]),
                  best_length |-> LengthAfter(D, n2i, bst, len, q[1], q[2])]

\* tour_ids[:]: a new list, the list object of no argument
SliceCopy(name) == {}

\* tsp_2opt(distances, node_to_index, tour_ids, tour_length): the call
tsp_2opt(tour, len) ==
    /\ pc = "tsp"
    /\ tour_ids' = tour
    /\ tour_length' = len
    /\ IF Len(tour) < 4
       THEN pc' = "2opt_ValueError" /\ UNCHANGED <<best, best_length, aliases>>
       ELSE /\ pc' = "2opt"
            /\ best' = tour
            /\ aliases' = SliceCopy("tour_ids")
            /\ best_length' = len
    /\ UNCHANGED seen
    /\ UNCHANGED <<graphVars, dijkstraVars, matrixVars, nnVars>>
    /\ UNCHANGED <<hkVars, pathVars, error, componentVars>>

\* tsp_2opt: the while loop left after its first pass
TwoOptStepOnePass ==
    /\ pc = "2opt"
    /\ best \notin seen
    /\ LET r == TwoOptPass(matrix, node_to_index, best, best_length)
       IN  /\ best' = r.best
           /\ best_length' = r.best_length
           /\ pc' = "2opt_done"
           /\ seen' = IF r.improved THEN seen \cup {best} ELSE seen
           /\ aliases' = IF r.improved THEN {} ELSE aliases
    /\ UNCHANGED <<tour_ids, tour_length>>
    /\ UNCHANGED <<graphVars, dijkstraVars, matrixVars, nnVars>>
    /\ UNCHANGED <<hkVars, pathVars, error, componentVars>>

\* tsp_2opt: one pass of the while loop.  The scan reads best and the matrix
\* only, so once best takes a value it had before, the passes from there
\* repeat without end; the model follows the run up to that point.
TwoOptStep ==
    /\ pc = "2opt"
    /\ best \notin seen
    /\ LET r == TwoOptPass(matrix, node_to_index, best, best_length)
       IN  /\ best' = r.best
           /\ best_length' = r.best_length
           /\ pc' = IF r.improved THEN "2opt" ELSE "2opt_done"
           /\ seen' = IF r.improved THEN seen \cup {best} ELSE seen
           /\ aliases' = IF r.improved THEN {} ELSE aliases
    /\ UNCHANGED <<tour_ids, tour_length>>
    /\ UNCHANGED <<graphVars, dijkstraVars, matrixVars, nnVars>>
    /\ UNCHANGED <<hkVars, pathVars, error, componentVars>>

\* tsp_2opt called once more, on the tour and the length it has returned
tsp_2opt_again ==
    /\ pc = "2opt_done"
    /\ tour_ids' = best
    /\ tour_length' = best_length
    /\ pc' = IF Len(best) < 4 THEN "2opt_ValueError" ELSE "2opt_again"
    /\ seen' = {}
    /\ aliases' = IF Len(best) < 4 THEN aliases ELSE SliceCopy("tour_ids")
    /\ UNCHANGED <<best, best_length>>
    /\ UNCHANGED <<graphVars, dijkstraVars, matrixVars, nnVars>>
    /\ UNCHANGED <<hkVars, pathVars, error, componentVars>>

\* tsp_2opt, the second call: one pass of the while loop
TwoOptStepAgain ==
    /\ pc = "2opt_again"
    /\ best \notin seen
    /\ LET r == TwoOptPass(matrix, node_to_index, best, best_length)
       IN  /\ best' = r.best
           /\ best_length' = r.best_length
           /\ pc' = IF r.improved THEN "2opt_again" ELSE "2opt_again_done"
           /\ seen' = IF r.improved THEN seen \cup {best} ELSE seen
           /\ aliases' = IF r.improved THEN {} ELSE aliases
    /\ UNCHANGED <<tour_ids, tour_length>>
    /\ UNCHANGED <<graphVars, dijkstraVars, matrixVars, nnVars>>
    /\ UNCHANGED <<hkVars, pathVars, error, componentVars>>

\* ------------------------------------------------------ algorithms/tsp_nn
\* row = distances[current].copy(), the visited stops not masked
MaskedRowUnmasked(D, vis, cur) == D[cur]

\* row = distances[current].copy(); row[visited] = np.inf
MaskedRow(D, vis, cur) ==
    [i \in DOMAIN D[cur] |-> IF i \in vis THEN Inf ELSE D[cur][i]]

\* the last index at which the row is least
ArgMinLast(row) ==
    CHOOSE i \in DOMAIN row : \A k \in DOMAIN row :
        row[i] < row[k] \/ (row[i] = row[k] /\ i >= k)

\* np.argmin(row): the first index at which the row is least
ArgMin(row) ==
    CHOOSE i \in DOMAIN row : \A k \in DOMAIN row :
        row[i] < row[k] \/ (row[i] = row[k] /\ i <= k)

\* [stops[i] for i in range(n) if not visited[i]], every stop listed
RemainingAll(sts, vis, k) == sts

\* [stops[i] for i in range(k) if not visited[i]]
RECURSIVE Remaining(_, _, _)
Remaining(sts, vis, k) ==
    IF k = 0 THEN <<>>
    ELSE LET before == Remaining(sts, vis, k - 1)
         IN  IF (k - 1) \in vis THEN before ELSE Append(before, sts[k])

\* [stops[i] for i in tour_idx]
TourIds(sts, idx) == [k \in 1..Len(idx) |-> sts[idx[k] + 1]]

\* tsp_nn(stops, distances, node_to_index, start, return_to_start): the call
tsp_nn(s, rts) ==
    /\ pc = "tsp"
    /\ start' = s
    /\ return_to_start' = rts
    /\ IF Cardinality(DOMAIN matrix) # Len(stops)
       THEN /\ pc' = "nn_shape_error"
            /\ error' = <<"dist shape does not match len(stops)",
                          Cardinality(DOMAIN matrix), Len(stops)>>
            /\ UNCHANGED <<visited, tour_idx, total_length, current>>
       ELSE IF s \notin DOMAIN node_to_index
       THEN /\ pc' = "nn_start_error"
            /\ error' = <<"Start node is not found in stops", s>>
            /\ UNCHANGED <<visited, tour_idx, total_length, current>>
       ELSE /\ pc' = "nn"
            /\ error' = <<>>
            /\ visited' = {node_to_index[s]}
            /\ tour_idx' = <<node_to_index[s]>>
            /\ total_length' = 0
            /\ current' = node_to_index[s]
    /\ UNCHANGED <<graphVars, dijkstraVars, matrixVars, twoOptVars>>
    /\ UNCHANGED <<hkVars, pathVars, componentVars>>

\* tsp_nn: one pass of the for loop with row = distances[current], a view
\* of the matrix: the masking writes into the row of the matrix itself
NNStepOnView ==
    /\ pc = "nn"
    /\ Len(tour_idx) < Len(stops)
    /\ LET row == MaskedRow(matrix, visited, current)
           next_idx == ArgMin(row)
           next_cost == row[next_idx]
       IN  /\ matrix' = [matrix EXCEPT ![current] = row]
           /\ IF next_cost = Inf
              THEN /\ pc' = "nn_unreachable_error"
                   /\ error' = <<"No reachable next stop from", stops[current + 1],
                                 Remaining(stops, visited, Len(stops))>>
                   /\ UNCHANGED <<visited, tour_idx, total_length, current>>
              ELSE /\ total_length' = FAdd(total_length, next_cost)
                   /\ current' = next_idx
                   /\ visited' = visited \cup {next_idx}
                   /\ tour_idx' = Append(tour_idx, next_idx)
                   /\ UNCHANGED <<pc, error>>
    /\ UNCHANGED <<start, return_to_start, tour_ids, tour_length, best, best_length, seen>>
    /\ UNCHANGED aliases
    /\ UNCHANGED <<graphVars, dijkstraVars>>
    /\ UNCHANGED <<stops, node_to_index, index_to_node, paths>>
    /\ UNCHANGED <<hkVars, pathVars, componentVars>>

\* tsp_nn: one pass of the for loop
NNStep ==
    /\ pc = "nn"
    /\ Len(tour_idx) < Len(stops)
    /\ LET row == MaskedRow(matrix, visited, current)
           next_idx == ArgMin(row)
           next_cost == row[next_idx]
       IN  IF next_cost = Inf
           THEN /\ pc' = "nn_unreachable_error"
                /\ error' = <<"No reachable next stop from", stops[current + 1],
                              Remaining(stops, visited, Len(stops))>>
                /\ UNCHANGED <<visited, tour_idx, total_length, current>>
           ELSE /\ total_length' = FAdd(total_length, next_cost)
                /\ current' = next_idx
                /\ visited' = visited \cup {next_idx}
                /\ tour_idx' = Append(tour_idx, next_idx)
                /\ UNCHANGED <<pc, error>>
    /\ UNCHANGED <<start, return_to_start, tour_ids, tour_length, best, best_length, seen>>
    /\ UNCHANGED aliases
    /\ UNCHANGED <<graphVars, dijkstraVars, matrixVars>>
    /\ UNCHANGED <<hkVars, pathVars, componentVars>>

\* tsp_nn after the loop, the way back added without the test for inf
NNReturnUnchecked ==
    /\ pc = "nn"
    /\ Len(tour_idx) = Len(stops)
    /\ LET start_idx == node_to_index[start]
           back_cost == matrix[current][start_idx]
       IN  /\ pc' = "nn_done"
           /\ total_length' = IF return_to_start
                               THEN FAdd(total_length, back_cost)
                               ELSE total_length
           /\ tour_idx' = IF return_to_start
                           THEN Append(tour_idx, start_idx)
                           ELSE tour_idx
           /\ tour_ids' = TourIds(stops, tour_idx')
    /\ UNCHANGED <<start, return_to_start, visited, current, error>>
    /\ UNCHANGED <<tour_length, best, best_length, seen, aliases>>
    /\ UNCHANGED <<graphVars, dijkstraVars, matrixVars>>
    /\ UNCHANGED <<hkVars, pathVars, componentVars>>

\* tsp_nn: after the loop, the way back to start and the return
NNReturn ==
    /\ pc = "nn"
    /\ Len(tour_idx) = Len(stops)
    /\ LET start_idx == node_to_index[start]
           back_cost == matrix[current][start_idx]
       IN  IF return_to_start /\ back_cost = Inf
           THEN /\ pc' = "nn_return_error"
                /\ error' = <<"Cannot return to start", start, stops[current + 1]>>
                /\ UNCHANGED <<tour_idx, total_length, tour_ids>>
           ELSE /\ pc' = "nn_done"
                /\ UNCHANGED error
                /\ total_length' = IF return_to_start
                                    THEN FAdd(total_length, back_cost)
                                    ELSE total_length
                /\ tour_idx' = IF return_to_start
                                THEN Append(tour_idx, start_idx)
                                ELSE tour_idx
                /\ tour_ids' = TourIds(stops, tour_idx')
    /\ UNCHANGED <<start, return_to_start, visited, current>>
    /\ UNCHANGED <<tour_length, best, best_length, seen, aliases>>
    /\ UNCHANGED <<graphVars, dijkstraVars, matrixVars>>
    /\ UNCHANGED <<hkVars, pathVars, componentVars>>

\* ----------------------------------------------- algorithms/tsp_held_karp
\* len(distances)
Rows(D) == Cardinality(DOMAIN D)

\* 1 << j
Shl(j) == 2 ^ j

\* mask & (1 << j)
HasBit(mask, j) == (mask \div Shl(j)) % 2 = 1

\* DP.get((mask, i), float('inf'))
DPGet(dp, mask, i) == IF <<mask, i>> \in DOMAIN dp THEN dp[<<mask, i>>] ELSE Inf

\* the for loop over i from i0 on: best_cost and best_index for (mask, j)
RECURSIVE ScanPrev(_, _, _, _, _, _)
ScanPrev(D, dp, prev_mask, j, i0, acc) ==
    IF i0 >= Rows(D) THEN acc
    ELSE IF ~HasBit(prev_mask, i0) THEN ScanPrev(D, dp, prev_mask, j, i0 + 1, acc)
    ELSE LET cost == FAdd(DPGet(dp, prev_mask, i0), D[i0][j])
         IN  ScanPrev(D, dp, prev_mask, j, i0 + 1,
                      IF FLt(cost, acc.best_cost)
                      THEN [best_cost |-> cost, best_index |-> i0]
                      ELSE acc)

\* the ends j that the pass for mask gives an entry
Ends(n, mask) ==
    IF ~HasBit(mask, 0) THEN {}
    ELSE {j \in 0..(n - 1) : HasBit(mask, j) /\ mask - Shl(j) # 0}

\* the tables after the pass of the outer loop for mask
HKMask(D, tables, mask) ==
    LET n == Rows(D)
        new == {<<mask, j>> : j \in Ends(n, mask)}
        found == [k \in new |->
                    ScanPrev(D, tables.DP, mask - Shl(k[2]), k[2], 0,
                             [best_cost |-> Inf, best_index |-> -1])]
    IN  [DP |-> [k \in (DOMAIN tables.DP) \cup new |->
                    IF k \in new THEN found[k].best_cost ELSE tables.DP[k]],
         parent |-> [k \in (DOMAIN tables.parent) \cup new |->
                    IF k \in new
                    THEN <<mask - Shl(k[2]), found[k].best_index>>
                    ELSE tables.parent[k]]]

\* for mask in range(1 << n), from mask on
RECURSIVE HKLoop(_, _, _)
HKLoop(D, tables, mask) ==
    IF mask >= Shl(Rows(D)) THEN tables
    ELSE HKLoop(D, HKMask(D, tables, mask), mask + 1)

\* DP = {(1 << 0, 0): 0}, parent = {} and the loop over the masks
HKTables(D) ==
    HKLoop(D, [DP |-> [k \in {<<1, 0>>} |-> 0], parent |-> Empty], 0)

\* the loop over i from i0 on, the way back distances[i][0] left out
RECURSIVE ScanLastNoReturn(_, _, _, _)
ScanLastNoReturn(D, dp, i0, acc) ==
    IF i0 >= Rows(D) THEN acc
    ELSE LET cost == dp[<<Shl(Rows(D)) - 1, i0>>]
         IN  ScanLastNoReturn(D, dp, i0 + 1,
                      IF FLt(cost, acc.optimal_length)
                      THEN [optimal_length |-> cost, best_index |-> i0]
                      ELSE acc)

\* for i in range(1, n), from i0 on: optimal_length and best_index
RECURSIVE ScanLast(_, _, _, _)
ScanLast(D, dp, i0, acc) ==
    IF i0 >= Rows(D) THEN acc
    ELSE LET cost == FAdd(dp[<<Shl(Rows(D)) - 1, i0>>], D[i0][0])
         IN  ScanLast(D, dp, i0 + 1,
                      IF FLt(cost, acc.optimal_length)
                      THEN [optimal_length |-> cost, best_index |-> i0]
                      ELSE acc)

\* while j != 0: tour.append(j); mask, j = parent[(mask, j)]
\* the indexes appended, or <<-1>> in front when parent has no such key
RECURSIVE HKWalk(_, _, _)
HKWalk(par, mask, j) ==
    IF j = 0 THEN <<>>
    ELSE IF <<mask, j>> \notin DOMAIN par THEN <<j, -1>>
    ELSE <<j>> \o HKWalk(par, par[<<mask, j>>][1], par[<<mask, j>>][2])

\* tsp_held_karp after the loop over the masks: the way back to the start,
\* the tour walked back along parent, and its stops
HKResult(D, i2n, tables) ==
    LET n == Rows(D)
        last == ScanLast(D, tables.DP, 1, [optimal_length |-> Inf, best_index |-> -1])
        walk == HKWalk(tables.parent, Shl(n) - 1, last.best_index)
        tour_back == <<0>> \o walk \o <<0>>
        tour_fwd == Reverse(tour_back)
    IN  IF -1 \in Range(walk) \/ \E k \in 1..Len(tour_fwd) : tour_fwd[k] \notin DOMAIN i2n
        THEN [pc |-> "KeyError", optimal_length |-> last.optimal_length, tour_ids |-> <<>>]
        ELSE [pc |-> "done", optimal_length |-> last.optimal_length,
              tour_ids |-> [k \in 1..Len(tour_fwd) |-> i2n[tour_fwd[k]]]]

\* tsp_held_karp(distances, index_to_node): the call and the loop over the masks
tsp_held_karp ==
    /\ pc \in {"tsp", "nn_done", "2opt_done"}
    /\ LET tables == HKTables(matrix)
       IN  /\ DP' = tables.DP
           /\ parent' = tables.parent
    /\ pc' = "hk"
    /\ UNCHANGED <<optimal_length, hk_tour_ids>>
    /\ UNCHANGED <<graphVars, dijkstraVars, matrixVars, twoOptVars, nnVars>>
    /\ UNCHANGED <<pathVars, error, componentVars>>

\* tsp_held_karp: the return to the start, the reconstruction and the return
HKReturn ==
    /\ pc = "hk"
    /\ LET r == HKResult(matrix, index_to_node, [DP |-> DP, parent |-> parent])
       IN  /\ pc' = IF r.pc = "done" THEN "hk_done" ELSE "hk_KeyError"
           /\ optimal_length' = r.optimal_length
           /\ hk_tour_ids' = r.tour_ids
    /\ UNCHANGED <<DP, parent>>
    /\ UNCHANGED <<graphVars, dijkstraVars, matrixVars, twoOptVars, nnVars>>
    /\ UNCHANGED <<pathVars, error, componentVars>>

\* ------------------------------------------------------------ specification
\* Graph(directed): no nodes yet
GraphInit ==
    /\ nodes = {}
    /\ nbr = [n \in NodeIds |-> Empty]
    /\ directed \in BOOLEAN

\* no dijkstra call yet
DijkstraIdle ==
    /\ source = None
    /\ target = None
    /\ distances = Empty
    /\ prev = Empty
    /\ pq = {}
    /\ expanded = [n \in NodeIds |-> 0]

\* no tsp_2opt call yet
TwoOptIdle ==
    /\ tour_ids = <<>>
    /\ tour_length = 0
    /\ best = <<>>
    /\ best_length = 0
    /\ seen = {}
    /\ aliases = {}

\* no tsp_nn call yet
NNIdle ==
    /\ start = None
    /\ return_to_start = FALSE
    /\ visited = {}
    /\ tour_idx = <<>>
    /\ total_length = 0
    /\ current = 0
    /\ error = <<>>

\* no tsp_held_karp call yet
HKIdle ==
    /\ DP = <<>>
    /\ parent = <<>>
    /\ optimal_length = 0
    /\ hk_tour_ids = <<>>

\* no reconstruct_path call yet
PathIdle ==
    /\ path = <<>>
    /\ path_current = None

\* no connected_components or extract_component call yet
ComponentIdle ==
    /\ components = <<>>
    /\ component = {}
    /\ final_nodes = {}
    /\ final_nbr = [n \in NodeIds |-> Empty]

Init ==
    /\ GraphInit
    /\ pc = "build"
    /\ DijkstraIdle
    /\ stops = <<>>
    /\ matrix = <<>>
    /\ node_to_index = <<>>
    /\ index_to_node = <<>>
    /\ paths = <<>>
    /\ TwoOptIdle
    /\ NNIdle
    /\ HKIdle
    /\ PathIdle
    /\ ComponentIdle

\* the lists of at most n identifiers
SeqsUpTo(n) == UNION {[1..k -> NodeIds] : k \in 0..n}

BuildGraph ==
    \/ \E n \in NodeIds : add_node(n)
    \/ \E u \in NodeIds : \E v \in NodeIds \ {u}, c \in Costs : add_edge(u, v, c)

NextMatrix ==
    \/ BuildGraph
    \/ \E sts \in SeqsUpTo(MaxStops) : distance_matrix(sts)

\* a graph is built, then distance_matrix is called on it
SpecMatrix == Init /\ [][NextMatrix]_vars

\* ----------------------------------------------- the inputs of the solvers
TspCosts == (0..MaxCost) \cup {Inf}

\* the matrix with the given entries off its diagonal, and 0 on it
MatrixOf(n, entry(_, _)) ==
    [i \in 0..(n - 1) |-> [j \in 0..(n - 1) |-> IF i = j THEN 0 ELSE entry(i, j)]]

\* the symmetric n x n matrices over TspCosts
SymmetricMatrices(n) ==
    LET pairs == {q \in (0..(n - 1)) \X (0..(n - 1)) : q[1] < q[2]}
    IN  {MatrixOf(n, LAMBDA i, j : IF i < j THEN f[<<i, j>>] ELSE f[<<j, i>>]) :
            f \in [pairs -> TspCosts]}

\* the n x n matrices with at most MaxHeavy entries other than 0, each finite
SparseMatrices(n) ==
    LET cells == {q \in (0..(n - 1)) \X (0..(n - 1)) : q[1] # q[2]}
        heavy == {h \in SUBSET cells : Cardinality(h) <= MaxHeavy}
    IN  UNION {{MatrixOf(n, LAMBDA i, j : IF <<i, j>> \in h THEN f[<<i, j>>] ELSE 0) :
                    f \in [h -> 1..MaxCost]} : h \in heavy}

\* the summed matrix entries along a tour, taken from its first stop onwards
RECURSIVE TourLength(_, _, _)
TourLength(D, n2i, tour) ==
    IF Len(tour) <= 1 THEN 0
    ELSE FAdd(TourLength(D, n2i, SubSeq(tour, 1, Len(tour) - 1)),
              Dist(D, n2i, tour[Len(tour) - 1], tour[Len(tour)]))

\* the tours given to tsp_2opt: open and closed, over three or four stops
Tours == {<<1, 2, 3>>, <<1, 2, 3, 1>>, <<1, 2, 3, 4>>, <<1, 2, 3, 4, 1>>,
          <<3, 1, 4, 2, 3>>}

\* a matrix over the stops 1..TourStops, as distance_matrix indexes it
Init2opt ==
    /\ GraphInit
    /\ directed
    /\ pc = "tsp"
    /\ DijkstraIdle
    /\ stops = [k \in 1..TourStops |-> k]
    /\ matrix \in SymmetricMatrices(TourStops) \cup SparseMatrices(TourStops)
    /\ node_to_index = NodeToIndex(stops)
    /\ index_to_node = IndexToNode(stops)
    /\ paths = <<>>
    /\ TwoOptIdle
    /\ NNIdle
    /\ HKIdle
    /\ PathIdle
    /\ ComponentIdle

Next2opt ==
    \/ \E tour \in Tours :
         \E len \in {TourLength(matrix, node_to_index, tour), OtherLength} :
            tsp_2opt(tour, len)
    \/ TwoOptStep
    \/ tsp_2opt_again
    \/ TwoOptStepAgain

\* tsp_2opt is called on a matrix and a tour
Spec2opt == Init2opt /\ [][Next2opt]_vars

\* all n x n matrices over TspCosts with 0 on the diagonal
AllMatrices(n) ==
    LET cells == {q \in (0..(n - 1)) \X (0..(n - 1)) : q[1] # q[2]}
    IN  {MatrixOf(n, LAMBDA i, j : f[<<i, j>>]) : f \in [cells -> TspCosts]}

\* a matrix, and the stops 1..n as distance_matrix indexes them; the matrix
\* need not have n rows
InitNN ==
    /\ GraphInit
    /\ directed
    /\ pc = "tsp"
    /\ DijkstraIdle
    /\ \E n \in 1..NNStops : stops = [k \in 1..n |-> k]
    /\ \E m \in 1..NNStops : matrix \in AllMatrices(m)
    /\ node_to_index = NodeToIndex(stops)
    /\ index_to_node = IndexToNode(stops)
    /\ paths = <<>>
    /\ TwoOptIdle
    /\ NNIdle
    /\ HKIdle
    /\ PathIdle
    /\ ComponentIdle

NextNN ==
    \/ \E s \in 1..(NNStops + 1), rts \in BOOLEAN : tsp_nn(s, rts)
    \/ NNStep
    \/ NNReturn

\* tsp_nn is called on a matrix and a list of stops
SpecNN == InitNN /\ [][NextNN]_vars

\* the closed tours over all the stops of sts
ClosedTours(sts) ==
    {t \in [1..(Len(sts) + 1) -> Range(sts)] :
        /\ t[1] = t[Len(sts) + 1]
        /\ \A k, m \in 1..Len(sts) : t[k] = t[m] => k = m}

NextTour ==
    \/ \E s \in 1..(NNStops + 1), rts \in BOOLEAN : tsp_nn(s, rts)
    \/ NNStep
    \/ NNReturn
    \/ \E tour \in ClosedTours(stops) :
         /\ Cardinality(DOMAIN matrix) = Len(stops)
         /\ \E len \in {TourLength(matrix, node_to_index, tour), OtherLength} :
               tsp_2opt(tour, len)
    \/ TwoOptStep
    \/ tsp_held_karp
    \/ HKReturn

\* the three solvers on one matrix: tsp_nn or tsp_2opt, then tsp_held_karp
SpecTour == InitNN /\ [][NextTour]_vars

\* a matrix and the mappings of its stops: every matrix of fewer than
\* HKStops rows, and those of the two families with HKStops rows
InitHK ==
    /\ GraphInit
    /\ directed
    /\ pc = "tsp"
    /\ DijkstraIdle
    /\ \E n \in 1..HKStops :
          /\ stops = [k \in 1..n |-> k]
          /\ matrix \in IF n < HKStops THEN AllMatrices(n)
                         ELSE SymmetricMatrices(n) \cup SparseMatrices(n)
    /\ node_to_index = NodeToIndex(stops)
    /\ index_to_node = IndexToNode(stops)
    /\ paths = <<>>
    /\ TwoOptIdle
    /\ NNIdle
    /\ HKIdle
    /\ PathIdle
    /\ ComponentIdle

NextHK ==
    \/ tsp_held_karp
    \/ HKReturn

\* tsp_held_karp is called on a matrix
SpecHK == InitHK /\ [][NextHK]_vars

\* the predecessor maps over some of the nodes, well formed or not
PrevMaps == UNION {[S -> NodeIds \cup {None}] : S \in SUBSET NodeIds}

\* a predecessor map, as dijkstra returns it or not
InitPath ==
    /\ GraphInit
    /\ directed
    /\ pc = "path"
    /\ source = None
    /\ target = None
    /\ distances = Empty
    /\ prev \in PrevMaps
    /\ pq = {}
    /\ expanded = [n \in NodeIds |-> 0]
    /\ stops = <<>>
    /\ matrix = <<>>
    /\ node_to_index = <<>>
    /\ index_to_node = <<>>
    /\ paths = <<>>
    /\ TwoOptIdle
    /\ NNIdle
    /\ HKIdle
    /\ PathIdle
    /\ ComponentIdle

NextPath ==
    \/ \E s \in NodeIds, t \in NodeIds : ReconstructCall(s, t)
    \/ WalkStep

\* reconstruct_path is called on a predecessor map
SpecPath == InitPath /\ [][NextPath]_vars

Next ==
    \/ \E n \in NodeIds : add_node(n)
    \/ \E u \in NodeIds : \E v \in NodeIds \ {u}, c \in Costs : add_edge(u, v, c)
    \/ \E s \in NodeIds, t \in NodeIds \cup {None} : DijkstraCall(s, t)
    \/ DijkstraStep

Spec == Init /\ [][Next]_vars

NextGraph ==
    \/ \E n \in NodeIds : add_node(n)
    \/ \E u \in NodeIds, v \in NodeIds, c \in Costs : add_edge(u, v, c)
    \/ connected_components
    \/ \E k \in 1..Len(components) : extract_component(components[k])

\* a graph is built, edges from a node to itself included; its components
\* are taken and one of them is extracted
SpecGraph == Init /\ [][NextGraph]_vars

InitCalls == Init \/ InitNN \/ InitPath

NextCalls ==
    \/ Next
    \/ \E sts \in SeqsUpTo(MaxStops) : distance_matrix(sts)
    \/ NextTour
    \/ NextPath

\* every call of the library, each on the inputs of its own specification
SpecCalls == InitCalls /\ [][NextCalls]_vars

\* --------------------------------------------------------------- reference
\* the least of a non-empty set of floats without nan
MinOf(S) == CHOOSE x \in S : \A y \in S : x <= y

\* Bellman-Ford: the least cost of a path from s to v of at most k edges
RECURSIVE BellmanFord(_, _, _, _, _)
BellmanFord(ns, nb, s, v, k) ==
    IF k = 0 THEN (IF v = s THEN 0 ELSE Inf)
    ELSE MinOf({BellmanFord(ns, nb, s, v, k - 1)} \cup
               {FAdd(BellmanFord(ns, nb, s, u, k - 1), nb[u][v]) :
                    u \in {w \in ns : v \in DOMAIN nb[w]}})

ShortestCost(ns, nb, s, v) == BellmanFord(ns, nb, s, v, Cardinality(ns))

\* the summed edge costs along a path, taken from its first node onwards
RECURSIVE PathCost(_, _, _)
PathCost(ns, nb, p) ==
    IF Len(p) <= 1 THEN 0
    ELSE FAdd(PathCost(ns, nb, SubSeq(p, 1, Len(p) - 1)),
              get_edge_cost(ns, nb, p[Len(p) - 1], p[Len(p)]))

FullRunDone == pc = "dijkstra_done" /\ target = None /\ source \in nodes

\* C1: after a full run of dijkstra from a source of the graph, the distance
\* of every node is the least cost of a path from the source to it, and
\* +inf when there is no such path.
C1_DistancesAreShortest ==
    FullRunDone =>
        \A v \in nodes : distances[v] = ShortestCost(nodes, nbr, source, v)

\* a full run in which a node is reached more cheaply over two edges than
\* over its direct edge (its first heap entry went stale)
C1_Witness ==
    /\ FullRunDone
    /\ \E v \in nodes :
          /\ v \in DOMAIN nbr[source]
          /\ distances[v] < nbr[source][v]

\* a full run that reaches one node and leaves another at +inf
C1_WitnessUnreachable ==
    /\ FullRunDone
    /\ \E v \in nodes : distances[v] = Inf
    /\ \E v \in nodes : v # source /\ distances[v] # Inf

\* C2: after a full run, the path reconstructed for a reachable node starts
\* at the source, ends at the node, follows existing edges of finite cost
\* and costs exactly the node's distance.
C2_PathMatchesDistance ==
    FullRunDone =>
        \A t \in nodes : distances[t] # Inf =>
            LET p == reconstruct_path(prev, source, t)
            IN  /\ Len(p) >= 1
                /\ p[1] = source
                /\ p[Len(p)] = t
                /\ \A k \in 1..(Len(p) - 1) :
                      /\ p[k + 1] \in DOMAIN nbr[p[k]]
                      /\ IsFinite(get_edge_cost(nodes, nbr, p[k], p[k + 1]))
                /\ PathCost(nodes, nbr, p) = distances[t]

\* a full run after which some path has three nodes
C2_Witness ==
    /\ FullRunDone
    /\ \E t \in nodes : Len(reconstruct_path(prev, source, t)) = 3

EarlyExitDone ==
    pc = "dijkstra_done" /\ target \in nodes /\ source \in nodes

\* C3: a run with a target returns the same distance for the target, and the
\* same reconstructed path to it, as the full run from the same source.
C3_EarlyExitAgrees ==
    EarlyExitDone =>
        LET full == dijkstra(nodes, nbr, source, None)
        IN  /\ distances[target] = full.distances[target]
            /\ reconstruct_path(prev, source, target)
                 = reconstruct_path(full.prev, source, target)

\* a run that stopped at its target with entries still on the heap, the
\* target being two edges away
C3_Witness ==
    /\ EarlyExitDone
    /\ pq # {}
    /\ Len(reconstruct_path(prev, source, target)) = 3

\* an early exit for an unreachable target
C3_WitnessUnreachable ==
    /\ EarlyExitDone
    /\ reconstruct_path(prev, source, target) = <<>>


\* ------------------------------------------------------- distance_matrix
\* no identifier occurs twice in the list
Distinct(seq) == \A k \in 1..Len(seq), m \in 1..Len(seq) : seq[k] = seq[m] => k = m

MatrixDone == pc = "matrix_done"
MatrixReturned == pc \in {"matrix_done", "matrix_KeyError"}
Indexes == 0..(Len(stops) - 1)

\* C4: for distinct stops the matrix distance_matrix returns has 0 on its
\* diagonal, and entry [i][j] off the diagonal is distances[stops[j]] of a
\* full dijkstra run from stops[i] on its own.
C4_MatrixMatchesDijkstra ==
    (MatrixDone /\ Distinct(stops)) =>
        \A i \in Indexes, j \in Indexes :
            matrix[i][j] =
                IF i = j THEN 0
                ELSE dijkstra(nodes, nbr, stops[i + 1], None).distances[stops[j + 1]]

\* a matrix over two stops, one way finite and positive, the other way +inf
C4_Witness ==
    /\ MatrixDone
    /\ Len(stops) = 2
    /\ Distinct(stops)
    /\ matrix[0][1] \in 1..(2 * MaxCost)
    /\ matrix[1][0] = Inf

\* C5: distance_matrix returns no matrix when stops names an identifier twice
\* or names an identifier that is not a node of the graph.
C5_InvalidStopsRejected ==
    (MatrixReturned /\ (~Distinct(stops) \/ \E k \in 1..Len(stops) : stops[k] \notin nodes))
        => ~MatrixDone

C26_PathTableMatchesMatrix ==
    (MatrixDone /\ Distinct(stops)) =>
        /\ DOMAIN paths = {q \in Range(stops) \X Range(stops) : q[1] # q[2]}
        /\ \A q \in DOMAIN paths :
              LET entry == matrix[node_to_index[q[1]]][node_to_index[q[2]]]
                  p == paths[q]
              IN  /\ p = <<>> <=> entry = Inf
                  /\ entry # Inf =>
                        /\ p[1] = q[1]
                        /\ p[Len(p)] = q[2]
                        /\ PathCost(nodes, nbr, p) = entry

\* two stops, one way a path over the third node, the other way no path
C26_Witness ==
    /\ MatrixDone
    /\ Len(stops) = 2
    /\ Distinct(stops)
    /\ Len(paths[<<stops[1], stops[2]>>]) = 3
    /\ paths[<<stops[2], stops[1]>>] = <<>>

\* --------------------------------------------------------------- tsp_2opt
TwoOptDone == pc = "2opt_done"

\* every entry of the matrix is a finite number
FiniteMatrix == \A i \in DOMAIN matrix : \A j \in DOMAIN matrix[i] : IsFinite(matrix[i][j])

SymmetricMatrix == \A i \in DOMAIN matrix : \A j \in DOMAIN matrix[i] : matrix[i][j] = matrix[j][i]

\* the tour_length given is the summed matrix entries along tour_ids
ConsistentInput == tour_length = TourLength(matrix, node_to_index, tour_ids)

\* C8: given a tour_length that is the sum of the matrix entries along
\* tour_ids, tsp_2opt returns a length that is the sum of the matrix entries
\* along the tour it returns, whether the matrix is symmetric or not.
C8_ReturnedLengthIsTourLength ==
    (TwoOptDone /\ ConsistentInput) =>
        best_length = TourLength(matrix, node_to_index, best)

\* C9: on a finite matrix tsp_2opt never comes back to a tour it had
\* before, so its loop ends with a scan that finds no improving swap.
C9_NoTourRevisited ==
    (pc = "2opt" /\ FiniteMatrix) => best \notin seen

Count(seq, x) == Cardinality({k \in 1..Len(seq) : seq[k] = x})

\* a and b hold the same stops, each as often
SameStops(a, b) == \A x \in Range(a) \cup Range(b) : Count(a, x) = Count(b, x)

\* first element equals last
Closed(seq) == seq[1] = seq[Len(seq)]

\* C11: after every swap of tsp_2opt and at its return, best has as many
\* elements as tour_ids and the same stops, each as often; its first and
\* its last element are those of tour_ids, so it is closed exactly when
\* tour_ids is, and the wrap-around stop of a closed tour is neither
\* dropped nor duplicated.
C11_ShapeAndStopsKept ==
    pc \in {"2opt", "2opt_done"} =>
        /\ Len(best) = Len(tour_ids)
        /\ SameStops(best, tour_ids)
        /\ best[1] = tour_ids[1]
        /\ best[Len(best)] = tour_ids[Len(tour_ids)]
        /\ Closed(best) <=> Closed(tour_ids)

\* a closed tour comes back in another order
C11_Witness ==
    /\ TwoOptDone
    /\ Closed(tour_ids)
    /\ best # tour_ids

\* C12: tsp_2opt called again with the tour and the length it returned
\* makes no swap and returns that tour and that length.
C12_SecondCallChangesNothing ==
    pc \in {"2opt_again", "2opt_again_done"} =>
        /\ best = tour_ids
        /\ best_length = tour_length

\* the second call has returned, on a tour that the first call had reordered
C12_Witness ==
    /\ pc = "2opt_again_done"
    /\ best \notin Tours


\* ---------------------------------------------- tsp_held_karp, its tour
\* C30: whenever tsp_held_karp returns, optimal_length is the sum of the
\* matrix entries over the consecutive pairs of the tour returned, taken in
\* the direction in which the tour lists them, on asymmetric matrices too.
C30_LengthIsSumAlongTour ==
    pc = "hk_done" =>
        optimal_length = TourLength(matrix, node_to_index, hk_tour_ids)

\* a tour over four stops returned on a matrix on which the same cycle
\* travelled the other way round costs more
C30_Witness ==
    /\ pc = "hk_done"
    /\ Rows(matrix) = 4
    /\ optimal_length <
          TourLength(matrix, node_to_index,
                     [k \in 1..Len(hk_tour_ids) |->
                         hk_tour_ids[Len(hk_tour_ids) + 1 - k]])

\* C23: tsp_2opt raises its ValueError for every tour with fewer than four
\* distinct stops, the repeated start of a closed tour counted once, and
\* for no tour with four distinct stops or more.
C23_FewDistinctStopsRejected ==
    tour_ids # <<>> =>
        (pc = "2opt_ValueError" <=> Cardinality(Range(tour_ids)) < 4)


\* the pairs (i, j) with 1 <= i < j <= n - 2 at which
\* cost(a, c) + cost(b, d) < cost(a, b) + cost(c, d), for a, b = tour[i - 1],
\* tour[i] and c, d = tour[j], tour[j + 1]
StrictlyImproving(tour) ==
    LET cost(x, y) == matrix[node_to_index[x]][node_to_index[y]]
    IN  {q \in (1..(Len(tour) - 2)) \X (1..(Len(tour) - 2)) :
            /\ q[1] < q[2]
            /\ LET a == tour[q[1]]
                   b == tour[q[1] + 1]
                   c == tour[q[2] + 1]
                   d == tour[q[2] + 2]
               IN  FLt(FAdd(cost(a, c), cost(b, d)), FAdd(cost(a, b), cost(c, d)))}

\* the tour with its positions i..j in the opposite order
Swapped(tour, i, j) ==
    SubSeq(tour, 1, i) \o Reverse(SubSeq(tour, i + 1, j + 1))
        \o SubSeq(tour, j + 2, Len(tour))

\* C25: a pass of tsp_2opt over a tour in which some pair strictly improves
\* swaps at the first such pair in the order of (i, j) and goes on to a new
\* pass; a pass over a tour in which no pair strictly improves returns that
\* tour.
C25_FirstImprovementOrder ==
    [][(pc \in {"2opt", "2opt_again"}) =>
          LET improving == StrictlyImproving(best)
              first == {q \in improving : \A r \in improving : r = q \/ Before(q, r)}
          IN  IF improving = {}
              THEN /\ pc' \in {"2opt_done", "2opt_again_done"}
                   /\ best' = best
              ELSE /\ pc' = pc
                   /\ best' \in {Swapped(best, q[1], q[2]) : q \in first}]_vars

\* a swap was made in a tour with two or more strictly improving pairs, the
\* first of them not the one with the largest gain
C25_Witness ==
    /\ pc \in {"2opt", "2opt_done"}
    /\ \E tour \in seen :
          /\ Cardinality(StrictlyImproving(tour)) >= 2
          /\ \E q \in StrictlyImproving(tour) :
                /\ best = Swapped(tour, q[1], q[2])
                /\ \E r \in StrictlyImproving(tour) :
                      TourLength(matrix, node_to_index, Swapped(tour, r[1], r[2]))
                          < TourLength(matrix, node_to_index, best)

\* ---------------------------------------------------------- tsp_held_karp
HKDone == pc = "hk_done"

\* the tour returned has one element more than the matrix has rows, starts
\* and ends with index_to_node[0], and holds every other stop once in between
HKTourIsCycle ==
    LET n == Rows(matrix)
    IN  /\ Len(hk_tour_ids) = n + 1
        /\ hk_tour_ids[1] = index_to_node[0]
        /\ hk_tour_ids[n + 1] = index_to_node[0]
        /\ \A i \in 1..(n - 1) :
              Cardinality({k \in 2..n : hk_tour_ids[k] = index_to_node[i]}) = 1

\* C13: on every matrix of n >= 1 rows with finite entries tsp_held_karp
\* returns a tour; it has n + 1 elements, starts and ends with
\* index_to_node[0] and holds every other stop exactly once in between.
C13_ClosedCycleReturned ==
    (pc \in {"hk_done", "hk_KeyError"} /\ FiniteMatrix) =>
        /\ HKDone
        /\ HKTourIsCycle

\* the orderings of the members of S
Orderings(S) ==
    {f \in [1..Cardinality(S) -> S] : \A k, m \in DOMAIN f : f[k] = f[m] => k = m}

\* the summed entries of D along the indexes of seq
RECURSIVE IndexPathCost(_, _)
IndexPathCost(D, seq) ==
    IF Len(seq) <= 1 THEN 0
    ELSE FAdd(IndexPathCost(D, SubSeq(seq, 1, Len(seq) - 1)),
              D[seq[Len(seq) - 1]][seq[Len(seq)]])

\* the cost of the cycle 0 -> ordering -> 0
CycleCost(D, ordering) == IndexPathCost(D, <<0>> \o ordering \o <<0>>)

\* the least cycle cost over all orderings of the indexes 1..n-1
BruteForce(D) ==
    MinOf({CycleCost(D, o) : o \in Orderings(1..(Rows(D) - 1))})

\* C14: on a matrix of two or more rows with finite entries, symmetric or
\* not, the optimal_length tsp_held_karp returns is the least cost, over all
\* orderings of the indexes 1..n-1, of the cycle 0 -> ordering -> 0.
C14_OptimalLengthIsLeast ==
    (HKDone /\ FiniteMatrix /\ Rows(matrix) >= 2) =>
        optimal_length = BruteForce(matrix)

\* an asymmetric matrix of four rows whose best cycle beats the cycle in
\* index order and the cycle in the opposite order
C14_Witness ==
    /\ HKDone
    /\ FiniteMatrix
    /\ Rows(matrix) = 4
    /\ ~SymmetricMatrix
    /\ optimal_length < CycleCost(matrix, <<1, 2, 3>>)
    /\ optimal_length < CycleCost(matrix, <<3, 2, 1>>)

\* every cycle 0 -> ordering -> 0 over the rows of D crosses an entry +inf
Disconnected(D) ==
    /\ Rows(D) >= 2
    /\ \A o \in Orderings(1..(Rows(D) - 1)) :
          LET cycle == <<0>> \o o \o <<0>>
          IN  \E k \in 1..(Len(cycle) - 1) : D[cycle[k]][cycle[k + 1]] = Inf

\* C21: on a matrix of two or more rows on which every cycle through index
\* 0 crosses an entry +inf, tsp_held_karp returns, and the optimal_length it
\* returns is +inf.
C21_InfinityReturned ==
    (pc \in {"hk_done", "hk_KeyError"} /\ Disconnected(matrix)) =>
        /\ HKDone
        /\ optimal_length = Inf


\* ----------------------------------------------------------------- tsp_nn
NNDone == pc = "nn_done"

\* C7: when tsp_nn returns, its tour starts at start, holds every stop
\* exactly once, then start once more exactly when return_to_start is true,
\* and the length returned is the sum of the matrix entries along the tour.
C7_TourVisitsEveryStopOnce ==
    NNDone =>
        LET n == Len(stops)
        IN  /\ tour_ids[1] = start
            /\ Len(tour_ids) = IF return_to_start THEN n + 1 ELSE n
            /\ \A k \in 1..n : \E m \in 1..n :
                  /\ tour_ids[m] = stops[k]
                  /\ \A o \in 1..n : tour_ids[o] = stops[k] => o = m
            /\ return_to_start => tour_ids[n + 1] = start
            /\ total_length = TourLength(matrix, node_to_index, tour_ids)

\* a closed tour over three stops that does not start at the first stop
\* and has a positive length
C7_Witness ==
    /\ NNDone
    /\ Len(stops) = 3
    /\ return_to_start
    /\ start # stops[1]
    /\ total_length > 2

\* the index of the stop tsp_nn stands at: the last of its tour so far
LastIdx == tour_idx[Len(tour_idx)]

\* the indexes of the stops not in the tour so far
UnvisitedIdx == {i \in 0..(Len(stops) - 1) : \A k \in 1..Len(tour_idx) : tour_idx[k] # i}

\* C17: at a step of tsp_nn where stops are left, the call fails with the
\* error "No reachable next stop from" exactly when no stop outside the tour
\* has a finite cost from the stop the tour stands at; the error names that
\* stop and lists the stops outside the tour, each once and no other, and no
\* tour is returned.
C17_StrandedRaisesReachabilityError ==
    [][(pc = "nn" /\ Len(tour_idx) < Len(stops)) =>
          LET stranded == \A i \in UnvisitedIdx : matrix[LastIdx][i] = Inf
          IN  /\ stranded <=> pc' = "nn_unreachable_error"
              /\ stranded =>
                    /\ error'[1] = "No reachable next stop from"
                    /\ error'[2] = stops[LastIdx + 1]
                    /\ Len(error'[3]) = Cardinality(UnvisitedIdx)
                    /\ Range(error'[3]) = {stops[i + 1] : i \in UnvisitedIdx}
                    /\ tour_ids' = <<>>]_vars

\* stranded at the second of three stops, one stop left
C17_Witness ==
    /\ pc = "nn_unreachable_error"
    /\ Len(stops) = 3
    /\ Len(tour_idx) = 2
    /\ error[2] # start

\* C18: with return_to_start true and every stop visited, tsp_nn fails with
\* the error "Cannot return to start", which is not the error of a stranded
\* step, and returns no tour when the matrix entry from the last stop to
\* start is inf; otherwise it returns the tour with start appended and the
\* length with that entry added, which for a single stop is the tour
\* <<start, start>> of length 0.
C18_ClosingEdge ==
    [][(pc = "nn" /\ Len(tour_idx) = Len(stops) /\ return_to_start) =>
          LET back_cost == matrix[LastIdx][node_to_index[start]]
          IN  IF back_cost = Inf
              THEN /\ pc' = "nn_return_error"
                   /\ error'[1] = "Cannot return to start"
                   /\ error'[1] # "No reachable next stop from"
                   /\ error'[2] = start
                   /\ error'[3] = stops[LastIdx + 1]
                   /\ tour_ids' = <<>>
              ELSE /\ pc' = "nn_done"
                   /\ tour_ids' = Append(TourIds(stops, tour_idx), start)
                   /\ total_length' = FAdd(total_length, back_cost)
                   /\ Len(stops) = 1 =>
                         /\ tour_ids' = <<start, start>>
                         /\ total_length' = 0]_vars

\* the way back from the last of three stops is inf
C18_Witness ==
    /\ pc = "nn_return_error"
    /\ Len(stops) = 3
    /\ total_length > 0

\* a single stop, closed
C18_WitnessSingleStop ==
    /\ NNDone
    /\ Len(stops) = 1
    /\ return_to_start
    /\ tour_ids = <<start, start>>

\* C24: a step of tsp_nn that goes on appends to the tour a stop outside
\* it whose cost from the stop the tour stands at is the least among the
\* stops outside the tour, the one of lowest index among those of that
\* cost, and adds that cost to the length; the step has no other outcome,
\* so equal inputs give equal tours and lengths.
C24_NearestLowestIndexChosen ==
    [][(pc = "nn" /\ Len(tour_idx) < Len(stops) /\ pc' = "nn") =>
          LET next_idx == tour_idx'[Len(tour_idx) + 1]
          IN  /\ tour_idx' = Append(tour_idx, next_idx)
              /\ next_idx \in UnvisitedIdx
              /\ \A i \in UnvisitedIdx :
                    \/ matrix[LastIdx][next_idx] < matrix[LastIdx][i]
                    \/ /\ matrix[LastIdx][next_idx] = matrix[LastIdx][i]
                       /\ next_idx <= i
              /\ total_length' = FAdd(total_length, matrix[LastIdx][next_idx])]_vars

\* the first step had two stops of the same finite cost to choose from
C24_Witness ==
    /\ pc \in {"nn", "nn_done"}
    /\ Len(stops) = 3
    /\ Len(tour_idx) >= 2
    /\ \E i \in 0..2 :
          /\ i \notin {tour_idx[1], tour_idx[2]}
          /\ matrix[tour_idx[1]][i] = matrix[tour_idx[1]][tour_idx[2]]
          /\ IsFinite(matrix[tour_idx[1]][i])


\* ------------------------------------------------------ dijkstra, early exit
\* the run has stopped because its target was popped
TargetPopped == EarlyExitDone /\ IsFinite(distances[target])

\* popped and expanded before the run stopped, or the target itself
Finalized(v) == expanded[v] > 0 \/ v = target

\* the least cost of reaching v by one edge from an expanded node
Tentative(v) ==
    MinOf({Inf} \cup {FAdd(distances[u], nbr[u][v]) :
                         u \in {w \in nodes : expanded[w] > 0 /\ v \in DOMAIN nbr[w]}})

\* C20 as written: when dijkstra stops because its target was popped, every
\* node that is not finalized holds +inf, and every finite distance
\* returned is the node's least cost from the source.
C20_UnfinalizedStayInfinite ==
    TargetPopped =>
        \A v \in nodes :
            /\ ~Finalized(v) => distances[v] = Inf
            /\ IsFinite(distances[v]) =>
                  distances[v] = ShortestCost(nodes, nbr, source, v)

\* C20, amended: when dijkstra stops because its target was popped, the
\* target and every node expanded before it hold their least cost from the
\* source; any other node holds the least cost found so far by one edge from
\* an expanded node (+inf if no expanded node has an edge to it), which is
\* never under its least cost from the source but can be over it.
C20_FinalizedAreShortest ==
    TargetPopped =>
        \A v \in nodes :
            /\ Finalized(v) => distances[v] = ShortestCost(nodes, nbr, source, v)
            /\ ~Finalized(v) =>
                  /\ distances[v] = Tentative(v)
                  /\ distances[v] >= ShortestCost(nodes, nbr, source, v)

\* a node left on the heap with a finite distance over its least cost
C20_Witness ==
    /\ TargetPopped
    /\ \E v \in nodes :
          /\ ~Finalized(v)
          /\ IsFinite(distances[v])
          /\ distances[v] > ShortestCost(nodes, nbr, source, v)


\* C29: at every step of a dijkstra run from a node of the graph, with or
\* without a target, and at its return: distances[source] is 0 and
\* prev[source] is None; for every node v with prev[v] = u other than None
\* the graph has the edge (u, v) and distances[v] = distances[u] + cost(u, v);
\* and no node has had its out-edges relaxed more than once.
C29_PrevEdgesAndSingleExpansion ==
    (pc \in {"dijkstra", "dijkstra_done"} /\ source \in nodes) =>
        /\ distances[source] = 0
        /\ prev[source] = None
        /\ \A v \in nodes :
              prev[v] # None =>
                  /\ v \in DOMAIN nbr[prev[v]]
                  /\ distances[v] = FAdd(distances[prev[v]],
                                         get_edge_cost(nodes, nbr, prev[v], v))
        /\ \A v \in NodeIds : expanded[v] <= 1

\* the heap holds an outdated entry of a node that has been expanded, and
\* the node's prev is not the source
C29_Witness ==
    /\ pc = "dijkstra"
    /\ source \in nodes
    /\ \E e \in pq :
          /\ e[1] > distances[e[2]]
          /\ expanded[e[2]] = 1
          /\ prev[e[2]] # source

\* -------------------------------------------------------- reconstruct_path
\* C19: the walk of reconstruct_path over any predecessor map, well formed
\* or not, never stands at a node it has already put in path, so the loop
\* is left after at most one pass for each node.
C19_WalkNeverRevisits ==
    pc = "walk" => path_current \notin Range(path)


\* ------------------------------------------------- the solvers compared
\* tsp_nn has returned before tsp_held_karp was called
NNReturned == tour_idx # <<>>

\* tsp_2opt has returned before tsp_held_karp was called
TwoOptReturned == best # <<>>

\* C15, for the closed tours (an open tour has one edge fewer than a cycle
\* and can be shorter than every cycle): the optimal_length of
\* tsp_held_karp is at most the length tsp_nn returns with return_to_start
\* true on the same matrix, and at most the length tsp_2opt returns for a
\* closed tour over the same stops that was given with its own length.
C15_HeldKarpIsLeast ==
    HKDone =>
        /\ (NNReturned /\ return_to_start) => ~FGt(optimal_length, total_length)
        /\ (TwoOptReturned /\ ConsistentInput) => ~FGt(optimal_length, best_length)

\* C16: a length returned by tsp_nn, tsp_2opt or tsp_held_karp is a finite
\* number.
C16_ReturnedLengthFinite ==
    /\ NNDone => IsFinite(total_length)
    /\ TwoOptDone => IsFinite(best_length)
    /\ HKDone => IsFinite(optimal_length)


\* ---------------------------------------------------------------- Graph
\* C27: in a graph created with directed = False, after any calls of
\* add_node and add_edge, get_edge_cost(u, v) = get_edge_cost(v, u) for all
\* u and v, every neighbour stored at a node is a node of the graph, and
\* get_edge_cost is +inf for every pair without an edge.
C27_UndirectedStoresBothWays ==
    ~directed =>
        /\ \A u \in NodeIds, v \in NodeIds :
              get_edge_cost(nodes, nbr, u, v) = get_edge_cost(nodes, nbr, v, u)
        /\ \A u \in NodeIds : DOMAIN nbr[u] \subseteq nodes
        /\ \A u \in NodeIds, v \in NodeIds :
              v \notin DOMAIN nbr[u] => get_edge_cost(nodes, nbr, u, v) = Inf

\* an undirected graph of three edges with three different costs, one of
\* them from a node to itself
C27_Witness ==
    /\ ~directed
    /\ get_edge_cost(nodes, nbr, 1, 2) = 0
    /\ get_edge_cost(nodes, nbr, 2, 3) = 1
    /\ get_edge_cost(nodes, nbr, 2, 2) = 2
    /\ get_edge_cost(nodes, nbr, 3, 1) = Inf

\* C28: the graph extract_component returns for a component that
\* connected_components has returned, on a directed or an undirected graph,
\* has the members of the component as its nodes, and every neighbour
\* stored in it is a member of the component.
C28_ExtractedIsTheComponent ==
    pc = "extracted" =>
        /\ final_nodes = component
        /\ \A u \in NodeIds : DOMAIN final_nbr[u] \subseteq component

\* ------------------------------------------------------------ the frame
\* C22: a call changes none of its arguments, whether it returns or raises.
\* The graph changes in add_node and add_edge only; the stops, the matrix
\* and the index mappings stay as they are once the graph is built and a
\* call has them; prev stays under reconstruct_path, the input tour and its
\* length under tsp_2opt; and the list tsp_2opt returns is the list object
\* of none of its arguments.
C22_InputsUnchanged ==
    [][/\ (pc = "build" /\ pc' = "build") \/ UNCHANGED graphVars
       /\ pc # "build" => UNCHANGED <<stops, matrix, node_to_index, index_to_node>>
       /\ pc \in {"path", "walk"} => UNCHANGED prev
       /\ pc = "2opt" => UNCHANGED <<tour_ids, tour_length>>
       /\ pc' \in {"2opt", "2opt_done"} => aliases' = {}]_vars

\* tsp_nn has returned a tour over three stops on a matrix with finite
\* entries: it has masked finite entries twice
C22_Witness ==
    /\ pc = "nn_done"
    /\ Len(stops) = 3
    /\ FiniteMatrix

====
